---- MODULE Spec2Model ----
(***************************************************************************)
(* A model of @billjs/request (src/src/index.ts): the life of a call made  *)
(* through fetch(): the Request is constructed, one of the two transports  *)
(* (window.fetch or XMLHttpRequest) is dispatched, the environment         *)
(* delivers a response, a network error, an abort or lets the timeout      *)
(* elapse, the response is classified by HTTP status and normalized by a   *)
(* parser, and the then/catch chain of fetch() notifies the global         *)
(* observers and hands the outcome to the caller.                          *)
(***************************************************************************)
EXTENDS Integers, Sequences, FiniteSets, TLC

VARIABLES
    windowFetch,            \* whether window.fetch exists in the runtime
    responseParseFunction,  \* the global parser installed by parseResponse()
    eventHandlers,          \* number of observers registered per event type
    req,                    \* per call: the Request's fields, or NoReq
    fetchTimeoutTimer,      \* per call: this.fetchTimeoutTimer (0: no timer)
    finallyFetchCalls,      \* per call: how often finallyFetch() was invoked
    parserAtIssue,          \* per call: the global parser when the call was issued
    abortReachable,         \* per call: can code outside the transport call abort()?
    transport,              \* per call: the transport request() chose
    xhr,                    \* per call: this.xhr (FALSE: null)
    xhrObj,                 \* per call: the browser's XMLHttpRequest object
    net,                    \* per call: the network operation, as the environment sees it
    res,                    \* per call: the response the server sent, or NoRes
    clock,                  \* per call: has the timeout period elapsed?
    uncaught,               \* per call: exception thrown out of an event handler
    promise,                \* per call: the promise request() returned
    chain,                  \* per call: the promise .then(...) returned in fetch()
    outcome,                \* per call: the promise fetch() returned to its caller
    fired,                  \* per call: the notifications fired for it, in order
    args,                   \* the arguments of the construction under study
    request,                \* the Request constructed from them, or NoRequest
    sent,                   \* what was handed to the transport, or NotSent
    entry,                  \* the entry (fetch, a verb, upload) of the last call
    parseInput,             \* the response or the body whose parsing is under study
    parseOutput             \* what its parsing gave, or NoOutput

\* the construction of a Request, studied on its own
ctorVars == <<args, request, sent, entry>>

\* the parsing of a response, studied on its own
parseVars == <<parseInput, parseOutput>>

vars == <<windowFetch, responseParseFunction, eventHandlers, req,
          fetchTimeoutTimer, finallyFetchCalls, parserAtIssue, abortReachable, transport, xhr,
          xhrObj, net, res, clock, uncaught, promise, chain, outcome, fired,
          ctorVars, parseVars>>

-----------------------------------------------------------------------------
(* Bounds of the model. *)

\* number of calls issued in one behaviour
NumCalls == 1

\* observers that can be registered per event type
MaxHandlers == 1

Calls == 1..NumCalls

-----------------------------------------------------------------------------
(* JavaScript values.  Every value carries its type tag, so that a string  *)
(* is never equal to a number and `'' + x`, `a || b`, `x.f` and            *)
(* `x === void 0` can be computed as the language computes them.           *)

Undefined == [t |-> "undefined"]
Null == [t |-> "null"]
Str(s) == [t |-> "string", s |-> s]
Num(n) == [t |-> "number", n |-> n]
Bool(b) == [t |-> "boolean", b |-> b]
Obj(f) == [t |-> "object", f |-> f]

NoFields == [k \in {} |-> Undefined]

\* the object literal {}
EmptyObject == Obj(NoFields)

IsNullish(v) == v.t \in {"undefined", "null"}

\* ToBoolean: what `if (v)`, `!v` and `v || w` test
Truthy(v) ==
    CASE v.t = "undefined" -> FALSE
      [] v.t = "null" -> FALSE
      [] v.t = "string" -> v.s # ""
      [] v.t = "number" -> v.n # 0
      [] v.t = "boolean" -> v.b
      [] OTHER -> TRUE

\* a || b
OrElse(a, b) == IF Truthy(a) THEN a ELSE b

\* '' + v, as a TLA+ string
ToStr(v) ==
    CASE v.t = "undefined" -> "undefined"
      [] v.t = "null" -> "null"
      [] v.t = "string" -> v.s
      [] v.t = "number" -> ToString(v.n)
      [] v.t = "boolean" -> (IF v.b THEN "true" ELSE "false")
      [] OTHER -> "[object Object]"

\* v.k for a value that is neither null nor undefined (those throw)
GetProp(v, k) ==
    IF v.t = "object" /\ k \in DOMAIN v.f THEN v.f[k] ELSE Undefined

\* v.hasOwnProperty(k), again for a non-nullish v
HasOwn(v, k) == v.t = "object" /\ k \in DOMAIN v.f

\* v.k = w on an object
SetProp(v, k, w) == Obj((k :> w) @@ v.f)

-----------------------------------------------------------------------------
(* Promises and exceptions. *)

Pending == [s |-> "pending"]
Resolved(v) == [s |-> "resolved", v |-> v]
Rejected(e) == [s |-> "rejected", v |-> e]

SettleOverwrites(p, v) == v

\* resolve()/reject() of a promise, and Promise.race: the first settlement
\* stands, every later one is ignored
Settle(p, v) == IF p.s = "pending" THEN v ELSE p

\* the result of a computation that may throw
Returned(v) == [ok |-> TRUE, v |-> v]
Thrown(e) == [ok |-> FALSE, v |-> e]

\* as a promise settlement
AsSettlement(r) == IF r.ok THEN Resolved(r.v) ELSE Rejected(r.v)

NoErr == [t |-> "none"]

\* property access on null or undefined
NullDeref == [t |-> "TypeError", message |-> Str("Cannot read property of null")]

\* JSON.parse of a text that is not JSON
JsonSyntaxError == [t |-> "SyntaxError", message |-> Str("Unexpected token")]

\* what window.fetch rejects with when the network fails
NetworkFailure == [t |-> "TypeError", message |-> Str("Failed to fetch")]

\* what an observer that fails throws
ObserverFailure == [t |-> "Error", message |-> Str("observer failed")]

\* the stack an Error captures when none is given to it
NativeStack == Str("<captured stack>")

REQUEST_SUCCESS_STATUS == 200
REQUEST_300_STATUS == 300
REQUEST_CACHE_STATUS == 304

REQUEST_TIMEOUT_STATUS == 504
REQUEST_TIMEOUT_CODE == "1001"
REQUEST_TIMEOUT_MSG == "Request Timeout"

REQUEST_ERROR_STATUS == 500
REQUEST_ERROR_CODE == "1000"
REQUEST_ERROR_MSG == "Unknow Error"

REQUEST_ABORT_STATUS == 400
REQUEST_ABORT_CODE == "1002"
REQUEST_ABORT_MSG == "Request Aborted"

\* new RequestError(status, code, msg, stack): super(msg) makes the message
\* a string, and the stack is replaced only by a truthy one
RequestError(status, code, msg, stack) ==
    [t |-> "RequestError",
     status |-> status,
     code |-> code,
     message |-> Str(ToStr(msg)),
     stack |-> IF Truthy(stack) THEN stack ELSE NativeStack]

TimeoutError ==
    RequestError(Num(REQUEST_TIMEOUT_STATUS), Str(REQUEST_TIMEOUT_CODE),
                 Str(REQUEST_TIMEOUT_MSG), Undefined)

GenericError ==
    RequestError(Num(REQUEST_ERROR_STATUS), Str(REQUEST_ERROR_CODE),
                 Str(REQUEST_ERROR_MSG), Undefined)

AbortError ==
    RequestError(Num(REQUEST_ABORT_STATUS), Str(REQUEST_ABORT_CODE),
                 Str(REQUEST_ABORT_MSG), Undefined)

-----------------------------------------------------------------------------
(* What the caller and the server can supply. *)

\* the `parse` option and the global parser when none is set
NoParser == "null"

\* the parsers a call can be given: the one of the test suite and the one
\* of parseResponse()'s documentation
CallParsers == {"parseOuterData", "docParser"}

\* the parser installed globally: the one of parseResponse()'s documentation
GlobalParsers == {"docParser"}

DataTypes == {"json", "text"}

\* the `timeout` option, in milliseconds
Timeouts == {-1, 0, 2000}

RequestOptions ==
    [dataType : DataTypes, timeout : Timeouts, useXHR : BOOLEAN,
     parse : CallParsers \cup {NoParser}]

\* response bodies, as the text on the wire
TextEmpty == ""
TextHtml == "<html>Not Found</html>"
TextNull == "null"
TextStdOk == "{success:true,data:'1234'}"
TextStdFail == "{success:false,statusCode:500,errorCode:500,errorMessage:'Internal Server Error',errorStack:'at server.js',data:null}"
TextErr == "{errormsg:'Bad Request',errorcode:'E400'}"
TextOuter == "{error_code:0,error:null,result:'R'}"
TextDocFail == "{success:false,error_code:7,error_msg:'Custom Fail',data:null}"

Texts ==
    {TextEmpty, TextHtml, TextNull, TextStdOk, TextStdFail, TextErr,
     TextOuter, TextDocFail}

Statuses == {199, 200, 304, 404}

StatusTexts == {"", "Not Found"}

Responses == [status : Statuses, statusText : StatusTexts, text : Texts]

NoRes == [status |-> 0, statusText |-> "", text |-> "<no response>"]

\* JSON.parse(text): the value, or the SyntaxError it throws
JSONParse(text) ==
    CASE text = TextNull -> Returned(Null)
      [] text = TextStdOk ->
            Returned(Obj([success |-> Bool(TRUE), data |-> Str("1234")]))
      [] text = TextStdFail ->
            Returned(Obj([success |-> Bool(FALSE), statusCode |-> Num(500),
                          errorCode |-> Num(500),
                          errorMessage |-> Str("Internal Server Error"),
                          errorStack |-> Str("at server.js"),
                          data |-> Null]))
      [] text = TextErr ->
            Returned(Obj([errormsg |-> Str("Bad Request"),
                          errorcode |-> Str("E400")]))
      [] text = TextOuter ->
            Returned(Obj([error_code |-> Num(0), error |-> Null,
                          result |-> Str("R")]))
      [] text = TextDocFail ->
            Returned(Obj([success |-> Bool(FALSE), error_code |-> Num(7),
                          error_msg |-> Str("Custom Fail"), data |-> Null]))
      [] OTHER -> Thrown(JsonSyntaxError)

-----------------------------------------------------------------------------
(* Response parsers. *)

\* { success, statusCode, errorCode, errorMessage, errorStack, data }
ResponseData(success, statusCode, errorCode, errorMessage, errorStack, data) ==
    Obj([success |-> success, statusCode |-> statusCode,
         errorCode |-> errorCode, errorMessage |-> errorMessage,
         errorStack |-> errorStack, data |-> data])

\* the per-call parser of the test suite
parseOuterData(result) ==
    IF IsNullish(result) THEN Thrown(NullDeref)
    ELSE Returned(ResponseData(Bool(TRUE), Num(200),
                               GetProp(result, "error_code"),
                               GetProp(result, "error"), Null,
                               GetProp(result, "result")))

\* the parser shown in the documentation of parseResponse()
docParser(result) ==
    IF IsNullish(result) THEN Thrown(NullDeref)
    ELSE Returned(ResponseData(GetProp(result, "success"), Num(200),
                               GetProp(result, "error_code"),
                               GetProp(result, "error_msg"),
                               IF Truthy(GetProp(result, "error_stack"))
                                   THEN GetProp(result, "error_stack")
                                   ELSE Null,
                               GetProp(result, "data")))

\* the missing fields of a conforming body, filled in
FillDefaults(result) ==
    LET r1 == IF ~Truthy(GetProp(result, "statusCode"))
                  THEN SetProp(result, "statusCode", Num(REQUEST_SUCCESS_STATUS))
                  ELSE result
        r2 == IF ~Truthy(GetProp(r1, "errorCode"))
                  THEN SetProp(r1, "errorCode", Num(0)) ELSE r1
        r3 == IF GetProp(r2, "errorMessage") = Undefined
                  THEN SetProp(r2, "errorMessage", Null) ELSE r2
    IN  IF GetProp(r3, "errorStack") = Undefined
            THEN SetProp(r3, "errorStack", Null) ELSE r3

defaultParseResponse(result) ==
    IF IsNullish(result) THEN Thrown(NullDeref)
    ELSE IF HasOwn(result, "success") /\ HasOwn(result, "data")
        THEN Returned(FillDefaults(result))
        ELSE Returned(ResponseData(Bool(TRUE), Num(REQUEST_SUCCESS_STATUS),
                                   Num(0), Null, Null, result))

DefaultParser == "defaultParseResponse"

SelectGlobalFirst(r, global) ==
    IF global # NoParser THEN global
    ELSE IF r.parse # NoParser THEN r.parse
    ELSE DefaultParser

\* this.parse || responseParseFunction || defaultParseResponse
SelectParser(r, global) ==
    IF r.parse # NoParser THEN r.parse
    ELSE IF global # NoParser THEN global
    ELSE DefaultParser

\* parse(result)
ApplyParser(p, result) ==
    CASE p = "parseOuterData" -> parseOuterData(result)
      [] p = "docParser" -> docParser(result)
      [] OTHER -> defaultParseResponse(result)

\* the RequestError a failed ResponseData is turned into
ContractError(responseData) ==
    RequestError(GetProp(responseData, "statusCode"),
                 Str(ToStr(GetProp(responseData, "errorCode"))),
                 OrElse(GetProp(responseData, "errorMessage"),
                        Str(REQUEST_ERROR_MSG)),
                 GetProp(responseData, "errorStack"))

ParseResponseIgnoresSuccess(r, global, result) ==
    IF r.dataType = "json"
    THEN LET parsed == ApplyParser(SelectParser(r, global), result)
         IN  IF ~parsed.ok THEN parsed
             ELSE Returned(GetProp(parsed.v, "data"))
    ELSE Returned(result)

\* Request.parseResponse: the data, or the exception thrown
ParseResponse(r, global, result) ==
    IF r.dataType = "json"
    THEN LET parsed == ApplyParser(SelectParser(r, global), result)
         IN  IF ~parsed.ok THEN parsed
             ELSE IF ~Truthy(GetProp(parsed.v, "success"))
                 THEN Thrown(ContractError(parsed.v))
                 ELSE Returned(GetProp(parsed.v, "data"))
    ELSE Returned(result)

-----------------------------------------------------------------------------
(* Status classification, shared by both load handlers. *)

\* status < 200 || (status >= 300 && status !== 304)
IsFailureStatus(status) ==
    \/ status < REQUEST_SUCCESS_STATUS
    \/ (status >= REQUEST_300_STATUS /\ status # REQUEST_CACHE_STATUS)

\* new RequestError(status, result.errorcode || '' + status,
\*                  result.errormsg || statusText || REQUEST_ERROR_MSG)
StatusError(status, statusText, result) ==
    RequestError(Num(status),
                 OrElse(GetProp(result, "errorcode"), Str(ToString(status))),
                 OrElse(OrElse(GetProp(result, "errormsg"), Str(statusText)),
                        Str(REQUEST_ERROR_MSG)),
                 Undefined)

\* The body of both load handlers after the response body is parsed:
\* Returned(settlement) when resolve/reject was called, Thrown(e) when an
\* exception left the code before that (result.errormsg on a null body).
Classify(r, global, response, result) ==
    IF IsFailureStatus(response.status)
    THEN IF IsNullish(result) THEN Thrown(NullDeref)
         ELSE Returned(Rejected(StatusError(response.status,
                                            response.statusText, result)))
    ELSE Returned(AsSettlement(ParseResponse(r, global, result)))

parseFetchJSONDataNoCatch(text, readFails) ==
    IF readFails \/ ~JSONParse(text).ok THEN Undefined ELSE JSONParse(text).v

\* Request.parseFetchJSONData: res.json().then(resolve).catch(() => resolve({}))
\* res.json() rejects when the body cannot be read or is not JSON
parseFetchJSONData(text, readFails) ==
    IF readFails \/ ~JSONParse(text).ok THEN EmptyObject ELSE JSONParse(text).v

\* Request.parseFetchTextData: res.text().then(resolve).catch(() => resolve(''))
parseFetchTextData(text, readFails) ==
    IF readFails THEN Str("") ELSE Str(text)

\* the switch of Request.parseFetchData on this.dataType: what the body
\* promise resolves to, and whether the body of the response is read
parseFetchDataFrom(dataType, text, readFails) ==
    CASE dataType = "json" ->
            [read |-> TRUE, v |-> parseFetchJSONData(text, readFails)]
      [] dataType = "text" ->
            [read |-> TRUE, v |-> parseFetchTextData(text, readFails)]
      [] OTHER -> [read |-> FALSE, v |-> Str("")]

\* Request.parseFetchData on a body that can be read
parseFetchData(r, text) == parseFetchDataFrom(r.dataType, text, FALSE).v

\* onXHRLoad's reading of xhr.responseText
parseXHRData(r, text) ==
    IF r.dataType = "json"
    THEN IF text # "" THEN JSONParse(text) ELSE Returned(EmptyObject)
    ELSE Returned(Str(text))

-----------------------------------------------------------------------------
(* The construction of a Request: method, submission type, headers, URL,   *)
(* body, cross-origin flag and credentials.  Texts are TLA+ strings;       *)
(* values supplied by the caller are JavaScript values.                    *)

\* does the text s start with the text p
StartsWith(s, p) == Len(s) >= Len(p) /\ SubSeq(s, 1, Len(p)) = p

\* the i-th character of s is one of chars
CharIn(s, i, chars) == i <= Len(s) /\ SubSeq(s, i, i) \in chars

\* map for `dataType` and `Content-Type`
contentTypes ==
    [json |-> "application/json",
     text |-> "text/plain",
     urlencoded |-> "application/x-www-form-urlencoded",
     form |-> "multipart/form-data"]

\* the headers a Request starts with
DefaultHeaders ==
    ("Accept" :> contentTypes.json) @@ ("Content-Type" :> contentTypes.json)

NoHeaders == [k \in {} |-> ""]

\* this.headers[key] = val
setHeader(headers, key, val) == (key :> val) @@ headers

\* delete this.headers[key]
removeHeader(headers, key) == [k \in (DOMAIN headers) \ {key} |-> headers[k]]

ObjectAssignKeepsExisting(headers, source) == headers @@ source

\* Object.assign(this.headers, source)
ObjectAssign(headers, source) == source @@ headers

\* the mappings a caller passes as data
DataUser == Obj([name |-> Str("test")])
DataPage == Obj([page |-> Num(2)])

\* a FormData object
DataForm == [t |-> "object", f |-> [image |-> Str("<blob>")], formData |-> TRUE]

\* qs.stringify(val) of @billjs/query-string
QsStringify(val) ==
    CASE val = DataUser -> "name=test"
      [] val = DataPage -> "page=2"
      [] val.t = "string" -> val.s
      [] OTHER -> ""

\* JSON.stringify(val)
JSONStringify(val) ==
    CASE val = DataUser -> "{\"name\":\"test\"}"
      [] val = DataPage -> "{\"page\":2}"
      [] val.t = "string" -> "\"" \o val.s \o "\""
      [] val.t = "number" -> ToString(val.n)
      [] val.t = "boolean" -> (IF val.b THEN "true" ELSE "false")
      [] val.t = "null" -> "null"
      [] OTHER -> "{}"

\* ['GET', 'HEAD'].includes(this.method)
isQuery(method) == method \in {"GET", "HEAD"}

resolveURLAlwaysPrefixes(method, url, data) ==
    IF isQuery(method) /\ Truthy(data)
    THEN url \o "?" \o (IF data.t # "string" THEN QsStringify(data) ELSE data.s)
    ELSE url

\* Request.resolveURL
resolveURL(method, url, data) ==
    IF isQuery(method) /\ Truthy(data)
    THEN LET query == IF data.t # "string" THEN QsStringify(data) ELSE data.s
         IN  url \o (IF StartsWith(query, "?") THEN query ELSE "?" \o query)
    ELSE url

\* the length of what (?:http[s]?:)? matches at the start of url, ignoring case
SchemeLength(url) ==
    LET http == /\ CharIn(url, 1, {"h", "H"}) /\ CharIn(url, 2, {"t", "T"})
                /\ CharIn(url, 3, {"t", "T"}) /\ CharIn(url, 4, {"p", "P"})
    IN  IF http /\ CharIn(url, 5, {"s", "S"}) /\ CharIn(url, 6, {":"}) THEN 6
        ELSE IF http /\ CharIn(url, 5, {":"}) THEN 5
        ELSE 0

\* ABSOLUTE_PATH_REG = /^(?:http[s]?:)?\/\/(.*?)/i applied to url: whether it
\* matches, and RegExp.$1.  The group (.*?) is lazy and nothing follows it in
\* the pattern, so it matches the empty text.
ABSOLUTE_PATH_REG(url) ==
    LET n == SchemeLength(url)
        slashes(k) == CharIn(url, k + 1, {"/"}) /\ CharIn(url, k + 2, {"/"})
    IN  [test |-> slashes(n) \/ slashes(0), group1 |-> ""]

\* the setter of Request.url: the cross-origin flag it leaves
UrlSetsCors(url, hostname, cors) ==
    IF ABSOLUTE_PATH_REG(url).test /\ ABSOLUTE_PATH_REG(url).group1 # hostname
        THEN TRUE ELSE cors

SetDataAlwaysJson(method, type, val) ==
    IF isQuery(method) \/ IsNullish(val) THEN Null
    ELSE Str(JSONStringify(val))

SetDataForAnyMethod(method, type, val) ==
    IF IsNullish(val) THEN Null
    ELSE IF type = "json" THEN Str(JSONStringify(val))
    ELSE IF type = "urlencoded" THEN Str(QsStringify(val))
    ELSE val

\* the setter of Request.data: the body
SetData(method, type, val) ==
    IF isQuery(method) \/ IsNullish(val) THEN Null
    ELSE IF type = "json" THEN Str(JSONStringify(val))
    ELSE IF type = "urlencoded" THEN Str(QsStringify(val))
    ELSE val

SetContentTypeKeepsHeader(headers, val) ==
    IF val = Bool(FALSE) THEN headers
    ELSE setHeader(headers, "Content-Type", val.s)

\* the setter of Request.contentType, on the headers
SetContentType(headers, val) ==
    IF val = Bool(FALSE) THEN removeHeader(headers, "Content-Type")
    ELSE setHeader(headers, "Content-Type", val.s)

\* the setter of Request.type, on the headers
SetType(headers, val) ==
    IF val = "form" THEN SetContentType(headers, Bool(FALSE))
    ELSE SetContentType(headers, Str(contentTypes[val]))

\* the setter of Request.dataType, on the headers
SetDataType(headers, val) ==
    setHeader(headers, "Accept",
              IF val \in DOMAIN contentTypes THEN contentTypes[val] ELSE "*/*")

\* new Request(url, data, options), in the order of the constructor; the
\* fields the transports read when the request is dispatched
RequestConstructor(url, data, options, hostname) ==
    LET method == IF Truthy(options.method) THEN options.method.s ELSE "GET"
        type == IF Truthy(options.type) THEN options.type.s ELSE "json"
        h1 == IF Truthy(options.type)
                  THEN SetType(DefaultHeaders, options.type.s)
                  ELSE DefaultHeaders
        dataType == IF Truthy(options.dataType) THEN options.dataType.s
                    ELSE "json"
        h2 == IF Truthy(options.dataType)
                  THEN SetDataType(h1, options.dataType.s) ELSE h1
        h3 == IF options.contentType # Undefined
                  THEN SetContentType(h2, options.contentType) ELSE h2
        c1 == IF options.credentials # Undefined
                  THEN options.credentials.b ELSE FALSE
        resolved == resolveURL(method, url, data)
        cors == UrlSetsCors(resolved, hostname, FALSE)
    IN  [method |-> method,
         type |-> type,
         dataType |-> dataType,
         url |-> resolved,
         data |-> SetData(method, type, data),
         cors |-> cors,
         credentials |-> IF ~cors THEN TRUE ELSE c1,
         useXHR |-> options.useXHR,
         headers |-> ObjectAssign(h3, options.headers)]

\* the settings requestByFetchApi hands to window.fetch
FetchSettings(r) ==
    [transport |-> "fetch",
     url |-> r.url,
     body |-> IF ~IsNullish(r.data) THEN r.data ELSE Undefined,
     method |-> r.method,
     headers |-> r.headers,
     credentials |-> r.credentials,
     cors |-> r.cors]

\* what requestByXHR hands to the XMLHttpRequest: withCredentials, open,
\* setRequestHeader for every header, send
XHRSettings(r) ==
    [transport |-> "xhr",
     url |-> r.url,
     body |-> r.data,
     method |-> r.method,
     headers |-> r.headers,
     credentials |-> r.credentials,
     cors |-> r.cors]

\* window.location.hostname of the page
Hostnames == {"localhost"}

Methods == {Undefined, Str("GET"), Str("HEAD"), Str("POST"), Str("get")}

Types ==
    {Undefined, Str("json"), Str("text"), Str("urlencoded"), Str("form")}

AcceptTypes == {Undefined, Str("text")}

ContentTypeOptions == {Undefined, Bool(FALSE), Str("text/xml")}

CredentialsOptions == {Undefined, Bool(TRUE), Bool(FALSE)}

HeaderOptions ==
    {NoHeaders, "X-CSRF-Token" :> "123", "Content-Type" :> "image/png"}

Urls ==
    {"/api/user", "http://localhost/api/user", "//localhost/api/user",
     "https://example.org/api/user"}

Datas ==
    {Undefined, Null, Str(""), Str("id=1"), Str("?id=1"), DataUser, DataPage,
     DataForm}

ConstructorOptions ==
    [method : Methods, type : Types, dataType : AcceptTypes,
     contentType : ContentTypeOptions, credentials : CredentialsOptions,
     useXHR : BOOLEAN, headers : HeaderOptions]

Arguments ==
    [url : Urls, data : Datas, options : ConstructorOptions,
     hostname : Hostnames]

NoArgs == [url |-> "<none>"]

NoRequest == [url |-> "<none>"]

NotSent == [transport |-> "none"]

NoInput == [kind |-> "none"]

NoOutput == [stage |-> "none"]

-----------------------------------------------------------------------------
(* The state. *)

EventTypes == {"success", "error", "complete"}

NoReq == [issued |-> FALSE]

\* an XMLHttpRequest: the handler slots say whether a handler is attached
NoXHR ==
    [timeout |-> 0, progress |-> FALSE, onload |-> FALSE, onerror |-> FALSE,
     onabort |-> FALSE, ontimeout |-> FALSE]

\* the module and the calls, before anything is issued
InitCalls ==
    /\ windowFetch \in BOOLEAN
    /\ responseParseFunction = NoParser
    /\ eventHandlers = [e \in EventTypes |-> 0]
    /\ req = [c \in Calls |-> NoReq]
    /\ fetchTimeoutTimer = [c \in Calls |-> 0]
    /\ finallyFetchCalls = [c \in Calls |-> 0]
    /\ parserAtIssue = [c \in Calls |-> NoParser]
    /\ abortReachable = [c \in Calls |-> FALSE]
    /\ transport = [c \in Calls |-> "none"]
    /\ xhr = [c \in Calls |-> FALSE]
    /\ xhrObj = [c \in Calls |-> NoXHR]
    /\ net = [c \in Calls |-> "none"]
    /\ res = [c \in Calls |-> NoRes]
    /\ clock = [c \in Calls |-> "off"]
    /\ uncaught = [c \in Calls |-> NoErr]
    /\ promise = [c \in Calls |-> Pending]
    /\ chain = [c \in Calls |-> Pending]
    /\ outcome = [c \in Calls |-> Pending]
    /\ fired = [c \in Calls |-> <<>>]

Init ==
    /\ InitCalls
    /\ args = NoArgs
    /\ request = NoRequest
    /\ sent = NotSent
    /\ entry = "none"
    /\ parseInput = NoInput
    /\ parseOutput = NoOutput

-----------------------------------------------------------------------------
(* Global configuration. *)

\* parseResponse(cb)
parseResponse(cb) ==
    /\ responseParseFunction' = cb
    /\ UNCHANGED <<ctorVars, parseVars, finallyFetchCalls, windowFetch, parserAtIssue, eventHandlers, req, fetchTimeoutTimer,
                   abortReachable, transport, xhr, xhrObj, net, res, clock,
                   uncaught, promise, chain, outcome, fired>>

\* eventEmitter.on(type, ...)
on(type) ==
    /\ eventHandlers[type] < MaxHandlers
    /\ eventHandlers' = [eventHandlers EXCEPT ![type] = @ + 1]
    /\ UNCHANGED <<ctorVars, parseVars, finallyFetchCalls, windowFetch, parserAtIssue, responseParseFunction, req, fetchTimeoutTimer,
                   abortReachable, transport, xhr, xhrObj, net, res, clock,
                   uncaught, promise, chain, outcome, fired>>

catchSuccess == on("success")

catchError == on("error")

catchComplete == on("complete")

-----------------------------------------------------------------------------
(* Construction and dispatch. *)

MaxTakesSecond(a, b) == b

Max(a, b) == IF a > b THEN a ELSE b

\* new Request(url, data, options)
Request(options) ==
    [dataType |-> options.dataType,
     timeout |-> Max(0, options.timeout),
     useXHR |-> options.useXHR,
     parse |-> options.parse]

SelectTransportIgnoresUseXHR(r) == IF windowFetch THEN "fetch" ELSE "xhr"

\* the test of Request.request()
SelectTransport(r) == IF windowFetch /\ ~r.useXHR THEN "fetch" ELSE "xhr"

\* Request.requestByFetchApi: the timer is armed when timeout > 0; the abort
\* function createFetchAbort() returns is bound to a local and neither
\* stored nor returned; window.fetch is called
requestByFetchApi(c, r) ==
    /\ fetchTimeoutTimer' =
            [fetchTimeoutTimer EXCEPT ![c] = IF r.timeout > 0 THEN c ELSE 0]
    /\ abortReachable' = [abortReachable EXCEPT ![c] = FALSE]
    /\ UNCHANGED <<xhr, xhrObj>>

\* Request.requestByXHR: the handlers are attached, ontimeout only when
\* timeout > 0, and the request is sent
requestByXHR(c, r) ==
    /\ xhr' = [xhr EXCEPT ![c] = TRUE]
    /\ xhrObj' = [xhrObj EXCEPT ![c] =
            [timeout |-> r.timeout, progress |-> TRUE, onload |-> TRUE,
             onerror |-> TRUE, onabort |-> TRUE, ontimeout |-> r.timeout > 0]]
    /\ UNCHANGED <<fetchTimeoutTimer, abortReachable>>

\* fetch(url, data, options), up to the return of the promise: the Request
\* is built, request() dispatches it, then and catch are attached
fetch(c, options) ==
    /\ req[c] = NoReq
    /\ \A d \in Calls : d < c => req[d] # NoReq
    /\ LET r == Request(options)
       IN  /\ req' = [req EXCEPT ![c] = r]
           /\ transport' = [transport EXCEPT ![c] = SelectTransport(r)]
           /\ IF SelectTransport(r) = "fetch"
                  THEN requestByFetchApi(c, r)
                  ELSE requestByXHR(c, r)
           /\ clock' = [clock EXCEPT ![c] =
                            IF r.timeout > 0 THEN "running" ELSE "off"]
    /\ net' = [net EXCEPT ![c] = "open"]
    /\ parserAtIssue' = [parserAtIssue EXCEPT ![c] = responseParseFunction]
    /\ UNCHANGED <<ctorVars, parseVars, finallyFetchCalls, windowFetch, responseParseFunction, eventHandlers, res,
                   uncaught, promise, chain, outcome, fired>>

-----------------------------------------------------------------------------
(* The Fetch transport. *)

finallyFetchKeepsTimer(timer) == timer

\* Request.finallyFetch: the value of fetchTimeoutTimer afterwards
finallyFetch(timer) == 0

\* window.fetch resolves with the response head: onFetchLoad clears the timer,
\* reads the status and starts reading the body
FetchResponse(c, response) ==
    /\ transport[c] = "fetch"
    /\ net[c] = "open"
    /\ net' = [net EXCEPT ![c] = "head"]
    /\ res' = [res EXCEPT ![c] = response]
    /\ fetchTimeoutTimer' =
            [fetchTimeoutTimer EXCEPT ![c] = finallyFetch(@)]
    /\ finallyFetchCalls' = [finallyFetchCalls EXCEPT ![c] = @ + 1]
    /\ UNCHANGED <<ctorVars, parseVars, windowFetch, parserAtIssue, responseParseFunction, eventHandlers, req,
                   abortReachable, transport, xhr, xhrObj, clock, uncaught,
                   promise, chain, outcome, fired>>

GlobalParserAtIssue(c) == parserAtIssue[c]

\* Request.parseResponse reads the module variable responseParseFunction
\* when it runs
GlobalParser(c) == responseParseFunction

\* the body has been read: the continuation of onFetchLoad classifies the
\* status and normalizes; an exception in it reaches .catch(reject)
FetchBody(c) ==
    /\ transport[c] = "fetch"
    /\ net[c] = "head"
    /\ net' = [net EXCEPT ![c] = "done"]
    /\ LET result == parseFetchData(req[c], res[c].text)
           done == Classify(req[c], GlobalParser(c), res[c], result)
       IN  promise' = [promise EXCEPT ![c] =
                Settle(@, IF done.ok THEN done.v ELSE Rejected(done.v))]
    /\ UNCHANGED <<ctorVars, parseVars, finallyFetchCalls, windowFetch, parserAtIssue, responseParseFunction, eventHandlers, req,
                   fetchTimeoutTimer, abortReachable, transport, xhr, xhrObj,
                   res, clock, uncaught, chain, outcome, fired>>

onFetchErrorWraps(err) == Thrown(GenericError)

\* Request.onFetchError after finallyFetch(): throw err
onFetchError(err) == Thrown(err)

\* window.fetch rejects: onFetchError clears the timer and rethrows
FetchError(c) ==
    /\ transport[c] = "fetch"
    /\ net[c] = "open"
    /\ net' = [net EXCEPT ![c] = "failed"]
    /\ fetchTimeoutTimer' =
            [fetchTimeoutTimer EXCEPT ![c] = finallyFetch(@)]
    /\ finallyFetchCalls' = [finallyFetchCalls EXCEPT ![c] = @ + 1]
    /\ promise' = [promise EXCEPT ![c] =
            Settle(@, AsSettlement(onFetchError(NetworkFailure)))]
    /\ UNCHANGED <<ctorVars, parseVars, windowFetch, parserAtIssue, responseParseFunction, eventHandlers, req,
                   abortReachable, transport, xhr, xhrObj, res, clock,
                   uncaught, chain, outcome, fired>>

-----------------------------------------------------------------------------
(* The XHR transport. *)

finallyXHRKeepsHandlers(c) ==
    IF xhr[c]
    THEN /\ xhr' = [xhr EXCEPT ![c] = FALSE]
         /\ UNCHANGED xhrObj
    ELSE UNCHANGED <<xhr, xhrObj>>

\* Request.finallyXHR, on the XMLHttpRequest object
finallyXHR(c) ==
    IF xhr[c]
    THEN /\ xhrObj' = [xhrObj EXCEPT ![c] =
                [@ EXCEPT !.progress = FALSE, !.ontimeout = FALSE,
                          !.onload = FALSE, !.onerror = FALSE,
                          !.onabort = FALSE]]
         /\ xhr' = [xhr EXCEPT ![c] = FALSE]
    ELSE UNCHANGED <<xhr, xhrObj>>

\* the handler onXHRLoad returns, run at readyState 4
onXHRLoad(c, response) ==
    IF ~xhr[c]
    THEN UNCHANGED <<xhr, xhrObj, promise, uncaught>>
    ELSE /\ finallyXHR(c)
         /\ LET parsed == parseXHRData(req[c], response.text)
                done == Classify(req[c], GlobalParser(c), response,
                                 parsed.v)
            IN  IF ~parsed.ok
                THEN /\ uncaught' = [uncaught EXCEPT ![c] = parsed.v]
                     /\ UNCHANGED promise
                ELSE IF ~done.ok
                THEN /\ uncaught' = [uncaught EXCEPT ![c] = done.v]
                     /\ UNCHANGED promise
                ELSE /\ promise' = [promise EXCEPT ![c] = Settle(@, done.v)]
                     /\ UNCHANGED uncaught

\* the handlers onXHRError, onXHRAbort and onXHRTimeout return
onXHRFailure(c, err) ==
    /\ promise' = [promise EXCEPT ![c] = Settle(@, Rejected(err))]
    /\ finallyXHR(c)
    /\ UNCHANGED uncaught

\* the browser fires `load`
XHRLoad(c, response) ==
    /\ transport[c] = "xhr"
    /\ net[c] = "open" \/ (net[c] = "done" /\ response = res[c])
    /\ net' = [net EXCEPT ![c] = "done"]
    /\ res' = [res EXCEPT ![c] = response]
    /\ IF xhrObj[c].onload
           THEN onXHRLoad(c, response)
           ELSE UNCHANGED <<xhr, xhrObj, promise, uncaught>>
    /\ UNCHANGED <<ctorVars, parseVars, finallyFetchCalls, windowFetch, parserAtIssue, responseParseFunction, eventHandlers, req,
                   fetchTimeoutTimer, abortReachable, transport, clock,
                   chain, outcome, fired>>

\* the browser fires `error`
XHRError(c) ==
    /\ transport[c] = "xhr"
    /\ net[c] # "none"
    /\ net' = [net EXCEPT ![c] = IF @ = "open" THEN "failed" ELSE @]
    /\ IF xhrObj[c].onerror
           THEN onXHRFailure(c, GenericError)
           ELSE UNCHANGED <<xhr, xhrObj, promise, uncaught>>
    /\ UNCHANGED <<ctorVars, parseVars, finallyFetchCalls, windowFetch, parserAtIssue, responseParseFunction, eventHandlers, req,
                   fetchTimeoutTimer, abortReachable, transport, res, clock,
                   chain, outcome, fired>>

\* the browser fires `abort`
XHRAbort(c) ==
    /\ transport[c] = "xhr"
    /\ net[c] # "none"
    /\ net' = [net EXCEPT ![c] = IF @ = "open" THEN "aborted" ELSE @]
    /\ IF xhrObj[c].onabort
           THEN onXHRFailure(c, AbortError)
           ELSE UNCHANGED <<xhr, xhrObj, promise, uncaught>>
    /\ UNCHANGED <<ctorVars, parseVars, finallyFetchCalls, windowFetch, parserAtIssue, responseParseFunction, eventHandlers, req,
                   fetchTimeoutTimer, abortReachable, transport, res, clock,
                   chain, outcome, fired>>

-----------------------------------------------------------------------------
(* The timeout. *)

\* The timeout period of a call ends.  Fetch transport: the callback of
\* createFetchTimeout runs if the timer is still armed.  XHR transport: the
\* browser fires `timeout` if the request is still in flight.
Elapse(c) ==
    /\ clock[c] = "running"
    /\ clock' = [clock EXCEPT ![c] =
            IF promise[c] = Pending THEN "elapsedPending" ELSE "elapsedSettled"]
    /\ IF transport[c] = "fetch"
       THEN /\ IF fetchTimeoutTimer[c] # 0
                  THEN /\ promise' = [promise EXCEPT ![c] =
                                Settle(@, Rejected(TimeoutError))]
                       /\ fetchTimeoutTimer' =
                            [fetchTimeoutTimer EXCEPT ![c] = finallyFetch(@)]
                       /\ finallyFetchCalls' =
                            [finallyFetchCalls EXCEPT ![c] = @ + 1]
                  ELSE UNCHANGED <<promise, fetchTimeoutTimer,
                                   finallyFetchCalls>>
            /\ UNCHANGED <<xhr, xhrObj, net, uncaught>>
       ELSE /\ IF net[c] = "open" /\ xhrObj[c].ontimeout
                  THEN /\ onXHRFailure(c, TimeoutError)
                       /\ net' = [net EXCEPT ![c] = "timedout"]
                  ELSE UNCHANGED <<xhr, xhrObj, promise, uncaught, net>>
            /\ UNCHANGED <<fetchTimeoutTimer, finallyFetchCalls>>
    /\ UNCHANGED <<ctorVars, parseVars, windowFetch, parserAtIssue, responseParseFunction, eventHandlers, req,
                   abortReachable, transport, res, chain, outcome, fired>>

-----------------------------------------------------------------------------
(* The then/catch chain of fetch(). *)

\* eventEmitter.fire(type, ...) calls the observers of `type` in turn; an
\* observer is the caller's code and may throw
MayThrow(type) == IF eventHandlers[type] > 0 THEN BOOLEAN ELSE {FALSE}

\* the callback given to .then: success, then complete, then the data
fetchThen(c) ==
    /\ promise[c].s = "resolved"
    /\ chain[c] = Pending
    /\ \E t1 \in MayThrow("success"), t2 \in MayThrow("complete") :
          IF t1
          THEN /\ fired' = [fired EXCEPT ![c] = Append(@, "success")]
               /\ chain' = [chain EXCEPT ![c] = Rejected(ObserverFailure)]
               /\ UNCHANGED outcome
          ELSE IF t2
          THEN /\ fired' = [fired EXCEPT ![c] = @ \o <<"success", "complete">>]
               /\ chain' = [chain EXCEPT ![c] = Rejected(ObserverFailure)]
               /\ UNCHANGED outcome
          ELSE /\ fired' = [fired EXCEPT ![c] = @ \o <<"success", "complete">>]
               /\ chain' = [chain EXCEPT ![c] = Resolved(promise[c].v)]
               /\ outcome' = [outcome EXCEPT ![c] = Resolved(promise[c].v)]
    /\ UNCHANGED <<ctorVars, parseVars, finallyFetchCalls, windowFetch, parserAtIssue, responseParseFunction, eventHandlers, req,
                   fetchTimeoutTimer, abortReachable, transport, xhr, xhrObj,
                   net, res, clock, uncaught, promise>>

\* the callback given to .catch: it runs for a rejection of request() and
\* for an exception of the .then callback; error, then complete, then rethrow
fetchCatch(c) ==
    /\ outcome[c] = Pending
    /\ \/ promise[c].s = "rejected" /\ chain[c] = Pending
       \/ chain[c].s = "rejected"
    /\ LET error == IF chain[c] = Pending THEN promise[c].v ELSE chain[c].v
       IN  /\ chain' = [chain EXCEPT ![c] = Rejected(error)]
           /\ \E t1 \in MayThrow("error"), t2 \in MayThrow("complete") :
                IF t1
                THEN /\ fired' = [fired EXCEPT ![c] = Append(@, "error")]
                     /\ outcome' = [outcome EXCEPT ![c] =
                                        Rejected(ObserverFailure)]
                ELSE /\ fired' = [fired EXCEPT ![c] =
                                        @ \o <<"error", "complete">>]
                     /\ outcome' = [outcome EXCEPT ![c] =
                            Rejected(IF t2 THEN ObserverFailure ELSE error)]
    /\ UNCHANGED <<ctorVars, parseVars, finallyFetchCalls, windowFetch, parserAtIssue, responseParseFunction, eventHandlers, req,
                   fetchTimeoutTimer, abortReachable, transport, xhr, xhrObj,
                   net, res, clock, uncaught, promise>>

-----------------------------------------------------------------------------

Next ==
    \/ \E cb \in GlobalParsers : parseResponse(cb)
    \/ catchSuccess
    \/ catchError
    \/ catchComplete
    \/ \E c \in Calls, options \in RequestOptions : fetch(c, options)
    \/ \E c \in Calls, response \in Responses : FetchResponse(c, response)
    \/ \E c \in Calls : FetchBody(c)
    \/ \E c \in Calls : FetchError(c)
    \/ \E c \in Calls, response \in Responses : XHRLoad(c, response)
    \/ \E c \in Calls : XHRError(c)
    \/ \E c \in Calls : XHRAbort(c)
    \/ \E c \in Calls : Elapse(c)
    \/ \E c \in Calls : fetchThen(c)
    \/ \E c \in Calls : fetchCatch(c)

Spec == Init /\ [][Next]_vars

\* The callbacks given to .then and .catch are run by the job queue once the
\* promise they hang on is settled, and the reading of a body whose head has
\* arrived comes to an end: these steps are not postponed forever.  Nothing
\* is assumed of the other events of the environment.
Fairness ==
    \A c \in Calls :
        /\ WF_vars(fetchThen(c))
        /\ WF_vars(fetchCatch(c))
        /\ WF_vars(FetchBody(c))

\* the calls and the responses of the behaviours whose end is studied: json
\* calls with and without timeout on either transport, answered with a body
\* that is not JSON, a standard success body or a standard failure body
LiveOptions ==
    [dataType : {"json"}, timeout : {0, 2000}, useXHR : BOOLEAN,
     parse : {NoParser}]

LiveResponses ==
    [status : {200, 404}, statusText : {""},
     text : {TextHtml, TextStdOk, TextStdFail}]

NextLive ==
    \/ \E cb \in GlobalParsers : parseResponse(cb)
    \/ catchSuccess
    \/ catchError
    \/ catchComplete
    \/ \E c \in Calls, options \in LiveOptions : fetch(c, options)
    \/ \E c \in Calls, response \in LiveResponses : FetchResponse(c, response)
    \/ \E c \in Calls : FetchBody(c)
    \/ \E c \in Calls : FetchError(c)
    \/ \E c \in Calls, response \in LiveResponses : XHRLoad(c, response)
    \/ \E c \in Calls : XHRError(c)
    \/ \E c \in Calls : XHRAbort(c)
    \/ \E c \in Calls : Elapse(c)
    \/ \E c \in Calls : fetchThen(c)
    \/ \E c \in Calls : fetchCatch(c)

SpecLive == Init /\ [][NextLive]_vars /\ Fairness

-----------------------------------------------------------------------------
(* The construction and dispatch of one Request, for every combination of  *)
(* arguments.                                                              *)

InitRequest ==
    /\ InitCalls
    /\ args \in Arguments
    /\ request = NoRequest
    /\ sent = NotSent
    /\ entry = "none"
    /\ parseInput = NoInput
    /\ parseOutput = NoOutput

\* const req = new Request(url, data, options)
Construct ==
    /\ request = NoRequest
    /\ request' = RequestConstructor(args.url, args.data, args.options,
                                     args.hostname)
    /\ UNCHANGED <<parseVars, finallyFetchCalls, windowFetch, parserAtIssue, responseParseFunction, eventHandlers, req,
                   fetchTimeoutTimer, abortReachable, transport, xhr, xhrObj,
                   net, res, clock, uncaught, promise, chain, outcome, fired,
                   args, sent, entry>>

\* req.request(): the transport is chosen and given the request
Dispatch ==
    /\ request # NoRequest
    /\ sent = NotSent
    /\ sent' = IF SelectTransport(request) = "fetch"
                   THEN FetchSettings(request) ELSE XHRSettings(request)
    /\ UNCHANGED <<parseVars, finallyFetchCalls, windowFetch, parserAtIssue, responseParseFunction, eventHandlers, req,
                   fetchTimeoutTimer, abortReachable, transport, xhr, xhrObj,
                   net, res, clock, uncaught, promise, chain, outcome, fired,
                   args, request, entry>>

NextRequest ==
    \/ Construct
    \/ Dispatch

SpecRequest == InitRequest /\ [][NextRequest]_vars

-----------------------------------------------------------------------------
(* Vocabulary of the properties. *)

Issued(c) == req[c] # NoReq

\* the load handling of call c ran to its end and was not overtaken by the
\* timeout
LoadWon(c) == net[c] = "done" /\ promise[c] # Rejected(TimeoutError)

\* this step is the load handling of call c, with the call still undecided
Normalizes(c) == net[c] # "done" /\ net'[c] = "done" /\ promise[c] = Pending

\* the response body as the transport of call c parses it: the value, or the
\* exception JSON.parse throws in the XHR load handler
ParsedBody(c, text) ==
    IF transport[c] = "fetch"
        THEN Returned(parseFetchData(req[c], text))
        ELSE parseXHRData(req[c], text)

CountOf(seq, x) == Cardinality({i \in 1..Len(seq) : seq[i] = x})

RECURSIVE SumOver(_, _)
SumOver(f, S) ==
    IF S = {} THEN 0
    ELSE LET c == CHOOSE x \in S : TRUE IN f[c] + SumOver(f, S \ {c})

\* notifications of one type fired so far, over all calls
Notified(type) == SumOver([c \in Calls |-> CountOf(fired[c], type)], Calls)

-----------------------------------------------------------------------------
(* C1  Once the network operation of a call has completed with an HTTP     *)
(* status, a status in [200,300) or 304 makes the call resolve with the    *)
(* normalized data and any other status makes it reject with a failure     *)
(* whose status is that HTTP status.  Stated generously: under a success   *)
(* status a rejection with a RequestError (the contract-declared failure   *)
(* of C8) is accepted as well.                                             *)
C1_StatusDecidesOutcome ==
    \A c \in Calls :
        LoadWon(c) =>
            IF IsFailureStatus(res[c].status)
            THEN /\ promise[c].s = "rejected"
                 /\ promise[c].v.t = "RequestError"
                 /\ promise[c].v.status = Num(res[c].status)
            ELSE \/ promise[c].s = "resolved"
                 \/ promise[c].s = "rejected" /\ promise[c].v.t = "RequestError"

(* C2  A call that has reached its terminal outcome has fired exactly one  *)
(* complete notification and exactly one outcome-specific notification:    *)
(* success if the request resolved, error if it rejected; never both, and  *)
(* never two complete notifications.                                       *)
C2_OneNotificationOfEach ==
    \A c \in Calls :
        /\ CountOf(fired[c], "complete") <= 1
        /\ ~(CountOf(fired[c], "success") > 0 /\ CountOf(fired[c], "error") > 0)
        /\ outcome[c] # Pending =>
              /\ CountOf(fired[c], "complete") = 1
              /\ promise[c].s = "resolved" => fired[c] = <<"success", "complete">>
              /\ promise[c].s = "rejected" => fired[c] = <<"error", "complete">>

(* C3  When all N issued calls have settled and K of them failed, N-K      *)
(* success, K error and N complete notifications have been fired.          *)
C3_NotificationCounts ==
    LET issued == {c \in Calls : Issued(c)}
        failed == {c \in issued : outcome[c].s = "rejected"}
    IN  (\A c \in issued : outcome[c] # Pending) =>
            /\ Notified("success") = Cardinality(issued) - Cardinality(failed)
            /\ Notified("error") = Cardinality(failed)
            /\ Notified("complete") = Cardinality(issued)

(* C4  Notifications of a call are fired only after the transport's        *)
(* promise has settled; the outcome-specific one comes first and complete  *)
(* second, and both have been fired when the outcome reaches the caller.   *)
C4_NotificationOrder ==
    \A c \in Calls :
        /\ fired[c] # <<>> => promise[c] # Pending
        /\ \A i \in 1..Len(fired[c]) :
              fired[c][i] = "complete" <=> i = 2
        /\ outcome[c] # Pending => Len(fired[c]) = 2

(* C5  On either transport, when the timeout of a call elapses before the  *)
(* call has produced its terminal outcome, the call rejects with the       *)
(* timeout failure: status 504, code "1001", message "Request Timeout":   *)
(* such a call does not end with any other result.                         *)
C5_TimeoutRejects ==
    \A c \in Calls :
        (clock[c] = "elapsedPending" /\ promise[c] # Pending) =>
            /\ promise[c].s = "rejected"
            /\ promise[c].v.t = "RequestError"
            /\ promise[c].v.status = Num(504)
            /\ promise[c].v.code = Str("1001")
            /\ promise[c].v.message = Str("Request Timeout")

(* C6  A call in flight on the Fetch transport has an abort handle that    *)
(* code outside the transport can trigger.                                 *)
C6_AbortHandleReachable ==
    \A c \in Calls :
        (transport[c] = "fetch" /\ promise[c] = Pending) => abortReachable[c]

(* C7  The promise of the transport settles at most once: whatever the     *)
(* environment delivers afterwards, a settled promise keeps its value, and *)
(* once the outcome has reached the caller neither the outcome nor the     *)
(* notifications fired for the call change again.                          *)
C7_SettlesOnce ==
    [][\A c \in Calls :
          /\ promise[c] # Pending => promise'[c] = promise[c]
          /\ outcome[c] # Pending =>
                outcome'[c] = outcome[c] /\ fired'[c] = fired[c]]_vars

\* a response that arrived after the timeout had rejected the call, with the
\* rejection delivered to the caller
C7_Witness ==
    \E c \in Calls :
        /\ promise[c] = Rejected(TimeoutError)
        /\ net[c] = "done"
        /\ outcome[c] = Rejected(TimeoutError)

(* C8  For a json call whose status is a success status, when the selected *)
(* parser returns a response with a false success the call rejects with a  *)
(* RequestError of that response's statusCode, stringified errorCode,      *)
(* errorMessage (the generic message when it is empty) and errorStack (the *)
(* captured stack when it is empty); otherwise it resolves with the        *)
(* response's data.                                                        *)
C8_ContractFailure ==
    [][\A c \in Calls :
          LET body == ParsedBody(c, res'[c].text)
              parser ==
                  IF req[c].parse # NoParser THEN req[c].parse
                  ELSE IF responseParseFunction # NoParser
                      THEN responseParseFunction
                      ELSE DefaultParser
              rd == ApplyParser(parser, body.v)
          IN  (/\ Normalizes(c)
               /\ req[c].dataType = "json"
               /\ ~IsFailureStatus(res'[c].status)
               /\ body.ok
               /\ rd.ok) =>
                  IF Truthy(rd.v.f.success)
                  THEN promise'[c] = Resolved(rd.v.f.data)
                  ELSE promise'[c] = Rejected(
                          [t |-> "RequestError",
                           status |-> rd.v.f.statusCode,
                           code |-> Str(ToStr(rd.v.f.errorCode)),
                           message |->
                               IF Truthy(rd.v.f.errorMessage)
                                   THEN rd.v.f.errorMessage
                                   ELSE Str(REQUEST_ERROR_MSG),
                           stack |->
                               IF Truthy(rd.v.f.errorStack)
                                   THEN rd.v.f.errorStack
                                   ELSE NativeStack])]_vars

\* a 200 response whose body declares the failure of the test server
C8_Witness ==
    \E c \in Calls :
        /\ Issued(c)
        /\ res[c].status = 200
        /\ res[c].text = TextStdFail
        /\ req[c].dataType = "json"
        /\ req[c].parse = NoParser
        /\ promise[c] = Rejected([t |-> "RequestError",
                                  status |-> Num(500),
                                  code |-> Str("500"),
                                  message |-> Str("Internal Server Error"),
                                  stack |-> Str("at server.js")])

(* C9  A call whose response has a failure status rejects with a failure   *)
(* whose message is the body's embedded error message if it has one, else  *)
(* the status text, else the generic message, and whose code is the body's *)
(* embedded error code if it has one, else the stringified status.         *)
C9_StatusFailureMessage ==
    \A c \in Calls :
        (LoadWon(c) /\ IsFailureStatus(res[c].status)) =>
            LET parsed == IF req[c].dataType = "json"
                              THEN JSONParse(res[c].text)
                              ELSE Returned(Str(res[c].text))
                body == IF parsed.ok THEN parsed.v ELSE EmptyObject
                embedded(k) == IF body.t = "object" /\ k \in DOMAIN body.f
                                   THEN body.f[k] ELSE Undefined
            IN  /\ promise[c].s = "rejected"
                /\ promise[c].v.t = "RequestError"
                /\ promise[c].v.message =
                      (IF Truthy(embedded("errormsg"))
                           THEN Str(ToStr(embedded("errormsg")))
                       ELSE IF res[c].statusText # ""
                           THEN Str(res[c].statusText)
                           ELSE Str(REQUEST_ERROR_MSG))
                /\ promise[c].v.code =
                      (IF Truthy(embedded("errorcode"))
                           THEN embedded("errorcode")
                           ELSE Str(ToString(res[c].status)))

(* C10  Normalization applies exactly one parser: the call's own if it has *)
(* one, else the global parser installed at that moment, else the          *)
(* structural default; with a dataType other than json no parser is        *)
(* applied and the body is the result as it is.  The call resolves with    *)
(* the data of the response that parser returns and, when that response    *)
(* declares failure, rejects with its errorMessage as the message.         *)
C10_ParserPriority ==
    [][\A c \in Calls :
          LET body == ParsedBody(c, res'[c].text)
              own == ApplyParser(req[c].parse, body.v)
              global == ApplyParser(responseParseFunction, body.v)
              default == defaultParseResponse(body.v)
              chosen == IF req[c].parse # NoParser THEN own
                        ELSE IF responseParseFunction # NoParser THEN global
                        ELSE default
          IN  (/\ Normalizes(c)
               /\ ~IsFailureStatus(res'[c].status)
               /\ body.ok) =>
                  IF req[c].dataType # "json"
                  THEN promise'[c] = Resolved(Str(res'[c].text))
                  ELSE chosen.ok =>
                      IF Truthy(chosen.v.f.success)
                      THEN promise'[c] = Resolved(chosen.v.f.data)
                      ELSE /\ promise'[c].s = "rejected"
                           /\ promise'[c].v.message =
                                 OrElse(chosen.v.f.errorMessage,
                                        Str(REQUEST_ERROR_MSG))]_vars

\* a call with its own parser, normalized while a different global parser
\* is installed, resolved with what its own parser makes of the body
C10_Witness ==
    \E c \in Calls :
        /\ Issued(c)
        /\ req[c].parse = "parseOuterData"
        /\ responseParseFunction = "docParser"
        /\ req[c].dataType = "json"
        /\ res[c].text = TextOuter
        /\ res[c].status = 200
        /\ promise[c] = Resolved(Str("R"))

(* C11  With neither a per-call nor a global parser, a json call whose     *)
(* status is a success status and whose parsed body does not expose both a *)
(* success and a data field resolves with exactly that body, and never     *)
(* rejects.                                                                *)
C11_NonStandardPassthrough ==
    \A c \in Calls :
        LET body == ParsedBody(c, res[c].text)
        IN  (/\ Issued(c)
             /\ LoadWon(c)
             /\ req[c].dataType = "json"
             /\ req[c].parse = NoParser
             /\ responseParseFunction = NoParser
             /\ ~IsFailureStatus(res[c].status)
             /\ body.ok
             /\ ~(HasOwn(body.v, "success") /\ HasOwn(body.v, "data"))) =>
                promise[c] = Resolved(body.v)

-----------------------------------------------------------------------------
(* The entries of the module: fetch, the verb entries and upload, called   *)
(* one after the other by a caller that passes the same options object.    *)
(* args.options is that object, args.given what the caller wrote in it.    *)

\* the method each verb entry assigns to options.method
VerbMethod ==
    [get |-> "GET", head |-> "HEAD", post |-> "POST", put |-> "PUT",
     patch |-> "PATCH", del |-> "DELETE", options |-> "OPTIONS"]

Verbs == DOMAIN VerbMethod

Entries == Verbs \cup {"fetch", "upload"}

EntryOptionsKeepsCallerMethod(name, opts) ==
    IF name = "fetch" THEN opts
    ELSE IF name = "upload"
        THEN [opts EXCEPT !.type = Str("form"),
                          !.method = IF Truthy(@) THEN @ ELSE Str("POST")]
    ELSE [opts EXCEPT !.method = IF Truthy(@) THEN @
                                 ELSE Str(VerbMethod[name])]

\* the options object after the entry's assignments: options.method = ... in
\* the verb entries, options.type = 'form' and then post() in upload
EntryOptions(name, opts) ==
    IF name = "fetch" THEN opts
    ELSE IF name = "upload"
        THEN [opts EXCEPT !.type = Str("form"), !.method = Str("POST")]
    ELSE [opts EXCEPT !.method = Str(VerbMethod[name])]

\* the data the entry passes on: options() passes null
EntryData(name, data) == IF name = "options" THEN Null ELSE data

\* the options a caller writes: a method and a submission type, or neither
EntryOptionSets ==
    {o \in ConstructorOptions :
        /\ o.dataType = Undefined
        /\ o.contentType = Undefined
        /\ o.credentials = Undefined
        /\ o.useXHR = FALSE
        /\ o.headers = NoHeaders}

EntryDatas == {Null, Str("id=1"), DataUser, DataForm}

EntryArguments ==
    {[url |-> "/api/user", data |-> d, options |-> o, hostname |-> h,
      given |-> o] : d \in EntryDatas, o \in EntryOptionSets, h \in Hostnames}

InitEntries ==
    /\ InitCalls
    /\ args \in EntryArguments
    /\ request = NoRequest
    /\ sent = NotSent
    /\ entry = "none"
    /\ parseInput = NoInput
    /\ parseOutput = NoOutput

\* one call of an entry with the caller's options object: the entry assigns
\* to the object, fetch() constructs the Request and dispatches it
CallEntry(name) ==
    LET opts == EntryOptions(name, args.options)
        r == RequestConstructor(args.url, EntryData(name, args.data), opts,
                                args.hostname)
    IN  /\ args' = [args EXCEPT !.options = opts]
        /\ request' = r
        /\ sent' = IF SelectTransport(r) = "fetch"
                       THEN FetchSettings(r) ELSE XHRSettings(r)
        /\ entry' = name
        /\ UNCHANGED <<parseVars, finallyFetchCalls, windowFetch, parserAtIssue, responseParseFunction, eventHandlers,
                       req, fetchTimeoutTimer, abortReachable, transport, xhr,
                       xhrObj, net, res, clock, uncaught, promise, chain,
                       outcome, fired>>

\* fetch(url, data, options)
CallFetch == CallEntry("fetch")

\* get, head, post, put, patch, del, options
CallVerb == \E name \in Verbs : CallEntry(name)

\* upload(url, data, options)
CallUpload == CallEntry("upload")

NextEntries ==
    \/ CallFetch
    \/ CallVerb
    \/ CallUpload

SpecEntries == InitEntries /\ [][NextEntries]_vars

-----------------------------------------------------------------------------
(* The parsing of one response by the Fetch transport, and the             *)
(* normalization of one body by the default parser, for every response and *)
(* every body.                                                             *)

\* the dataType option: json, text, and a value that is neither
ParseDataTypes == {"json", "text", "xml"}

\* a response as window.fetch delivers it; readFails: res.json() / res.text()
\* rejects because the body cannot be read
FetchInputs ==
    [kind : {"fetch"}, dataType : ParseDataTypes, status : Statuses,
     statusText : StatusTexts, text : Texts, readFails : BOOLEAN]

\* a field the server left out of the body
Absent == [t |-> "absent"]

\* the object holding the fields that are not left out
ObjectOf(fields) ==
    Obj([k \in {x \in DOMAIN fields : fields[x] # Absent} |-> fields[k]])

\* bodies a server can answer with the fields of ResponseData, or some of them
Bodies ==
    {ObjectOf([success |-> s, data |-> d, statusCode |-> sc, errorCode |-> ec,
               errorMessage |-> em, errorStack |-> es]) :
        s \in {Absent, Bool(TRUE), Bool(FALSE)},
        d \in {Absent, Null, Str("1234")},
        sc \in {Absent, Num(0), Num(500)},
        ec \in {Absent, Num(0), Str(""), Num(7)},
        em \in {Absent, Null, Str("Bad")},
        es \in {Absent, Str("at server.js")}}
    \cup {Str("plain"), Num(1)}

NormalizeInputs == [kind : {"normalize"}, result : Bodies]

\* the Request that parses: no parser of its own, no global parser installed
ParsingRequest(dataType) ==
    [dataType |-> dataType, timeout |-> 0, useXHR |-> FALSE,
     parse |-> NoParser]

InitParse ==
    /\ InitCalls
    /\ args = NoArgs
    /\ request = NoRequest
    /\ sent = NotSent
    /\ entry = "none"
    /\ parseInput \in FetchInputs \cup NormalizeInputs
    /\ parseOutput = NoOutput

\* onFetchLoad, first half: this.parseFetchData(res)
ParseBody ==
    /\ parseInput.kind = "fetch"
    /\ parseOutput = NoOutput
    /\ LET body == parseFetchDataFrom(parseInput.dataType, parseInput.text,
                                      parseInput.readFails)
       IN  parseOutput' = [stage |-> "body", read |-> body.read,
                           result |-> body.v]
    /\ UNCHANGED <<ctorVars, parseInput, finallyFetchCalls, windowFetch, parserAtIssue,
                   responseParseFunction, eventHandlers, req,
                   fetchTimeoutTimer, abortReachable, transport, xhr, xhrObj,
                   net, res, clock, uncaught, promise, chain, outcome, fired>>

\* onFetchLoad, second half: the callback given to .then classifies the
\* status on the parsed body and resolves or rejects; .catch(reject) rejects
\* with what the callback throws
ClassifyBody ==
    /\ parseOutput.stage = "body"
    /\ LET done == Classify(ParsingRequest(parseInput.dataType),
                            responseParseFunction,
                            [status |-> parseInput.status,
                             statusText |-> parseInput.statusText,
                             text |-> parseInput.text],
                            parseOutput.result)
       IN  parseOutput' = [stage |-> "settled", read |-> parseOutput.read,
                           result |-> parseOutput.result,
                           settlement |-> IF done.ok THEN done.v
                                          ELSE Rejected(done.v)]
    /\ UNCHANGED <<ctorVars, parseInput, finallyFetchCalls, windowFetch, parserAtIssue,
                   responseParseFunction, eventHandlers, req,
                   fetchTimeoutTimer, abortReachable, transport, xhr, xhrObj,
                   net, res, clock, uncaught, promise, chain, outcome, fired>>

\* defaultParseResponse(result), and Request.parseResponse(result) of a json
\* Request that uses it
Normalize ==
    /\ parseInput.kind = "normalize"
    /\ parseOutput = NoOutput
    /\ parseOutput' =
            [stage |-> "normalized",
             responseData |-> defaultParseResponse(parseInput.result),
             settlement |-> AsSettlement(
                    ParseResponse(ParsingRequest("json"),
                                  responseParseFunction, parseInput.result))]
    /\ UNCHANGED <<ctorVars, parseInput, finallyFetchCalls, windowFetch, parserAtIssue,
                   responseParseFunction, eventHandlers, req,
                   fetchTimeoutTimer, abortReachable, transport, xhr, xhrObj,
                   net, res, clock, uncaught, promise, chain, outcome, fired>>

NextParse ==
    \/ ParseBody
    \/ ClassifyBody
    \/ Normalize

SpecParse == InitParse /\ [][NextParse]_vars

-----------------------------------------------------------------------------
(* Vocabulary of the properties of the construction. *)

Constructed == request # NoRequest

Dispatched == sent # NotSent

LowerCaseLetters == "abcdefghijklmnopqrstuvwxyz"

UpperCaseLetters == "ABCDEFGHIJKLMNOPQRSTUVWXYZ"

UpperCaseChar(ch) ==
    IF \E i \in 1..26 : SubSeq(LowerCaseLetters, i, i) = ch
    THEN LET i == CHOOSE j \in 1..26 : SubSeq(LowerCaseLetters, j, j) = ch
         IN  SubSeq(UpperCaseLetters, i, i)
    ELSE ch

RECURSIVE UpperCase(_)
\* the text s in upper case
UpperCase(s) ==
    IF s = "" THEN ""
    ELSE UpperCaseChar(SubSeq(s, 1, 1)) \o UpperCase(SubSeq(s, 2, Len(s)))

(* C12  The method option is case-insensitive: a Request constructed with  *)
(* the method in any letter case holds the upper-case method and is in     *)
(* every field the Request the upper-case spelling gives, so that get and  *)
(* head in lower case are query methods too.                               *)
C12_MethodCaseInsensitive ==
    (Constructed /\ Truthy(args.options.method)) =>
        /\ request.method = UpperCase(args.options.method.s)
        /\ request =
              RequestConstructor(
                  args.url, args.data,
                  [args.options EXCEPT
                      !.method = Str(UpperCase(args.options.method.s))],
                  args.hostname)

(* C13  A dispatched call whose method is GET or HEAD hands no body to the *)
(* transport, whatever the data and the submission type, and its URL is    *)
(* the given URL followed by the non-empty data as a query string: a       *)
(* string as it is, a mapping serialized by qs.stringify.                  *)
C13_QueryMethodsSendNoBody ==
    (Dispatched /\ request.method \in {"GET", "HEAD"}) =>
        /\ IsNullish(sent.body)
        /\ request.data = Null
        /\ LET data == args.data
               query == IF data.t = "string" THEN data.s ELSE QsStringify(data)
           IN  IF IsNullish(data) \/ data = Str("")
               THEN sent.url = args.url
               ELSE /\ StartsWith(sent.url, args.url)
                    /\ SubSeq(sent.url, Len(sent.url) - Len(query) + 1,
                              Len(sent.url)) = query
                    /\ Len(sent.url) - Len(args.url) - Len(query) \in {0, 1}

\* a GET with a mapping as data and the urlencoded type, dispatched
C13_Witness ==
    /\ Dispatched
    /\ request.method = "GET"
    /\ args.data = DataUser
    /\ args.options.type = Str("urlencoded")
    /\ sent.url = "/api/user?name=test"
    /\ IsNullish(sent.body)

(* C14  For a query method and non-empty string data the resolved URL is   *)
(* url + data when the data starts with '?', and url + '?' + data when it  *)
(* does not: exactly one '?' separates the URL from the query.             *)
C14_QuerySeparator ==
    (/\ Constructed
     /\ request.method \in {"GET", "HEAD"}
     /\ args.data.t = "string"
     /\ args.data.s # "") =>
        /\ request.url =
              (IF SubSeq(args.data.s, 1, 1) = "?"
                   THEN args.url \o args.data.s
                   ELSE args.url \o "?" \o args.data.s)
        /\ SubSeq(request.url, Len(args.url) + 1, Len(args.url) + 1) = "?"
        /\ SubSeq(request.url, Len(args.url) + 2, Len(args.url) + 2) # "?"

\* data that already starts with '?', appended as it is
C14_Witness ==
    /\ Constructed
    /\ request.method = "HEAD"
    /\ args.data = Str("?id=1")
    /\ args.url = "/api/user"
    /\ request.url = "/api/user?id=1"

\* the caller overrides the Content-Type derived from the submission type
OverridesContentType ==
    \/ args.options.contentType # Undefined
    \/ "Content-Type" \in DOMAIN args.options.headers

C16_FormHasNoContentType ==
    (Dispatched /\ request.type = "form") =>
        "Content-Type" \notin DOMAIN sent.headers

(* C17  With the contentType option false the Content-Type derived from    *)
(* the submission type is removed, for every submission type: the header   *)
(* set handed to the transport has a Content-Type header only if the       *)
(* caller's own headers supply one.                                        *)
C17_ContentTypeFalseRemoves ==
    (Dispatched /\ args.options.contentType = Bool(FALSE)) =>
        IF "Content-Type" \in DOMAIN args.options.headers
        THEN sent.headers["Content-Type"] = args.options.headers["Content-Type"]
        ELSE "Content-Type" \notin DOMAIN sent.headers

\* the urlencoded type given together with contentType false
C17_Witness ==
    /\ Dispatched
    /\ args.options.type = Str("urlencoded")
    /\ args.options.contentType = Bool(FALSE)
    /\ request.method = "POST"
    /\ DOMAIN sent.headers = {"Accept"}

(* C18  When the type option and a string contentType option are both      *)
(* given, the Content-Type handed to the transport is the table entry of   *)
(* the submission type and not the value of the contentType option.        *)
C18_TypePreferredOverContentType ==
    (/\ Dispatched
     /\ Truthy(args.options.type)
     /\ args.options.type # Str("form")
     /\ args.options.contentType.t = "string"
     /\ "Content-Type" \notin DOMAIN args.options.headers) =>
        /\ "Content-Type" \in DOMAIN sent.headers
        /\ sent.headers["Content-Type"] = contentTypes[request.type]

(* C19  Every header the caller supplies reaches the transport with the    *)
(* caller's value, whatever the type, dataType and contentType options     *)
(* derive for that key.                                                    *)
C19_CallerHeadersWin ==
    Dispatched =>
        \A key \in DOMAIN args.options.headers :
            /\ key \in DOMAIN sent.headers
            /\ sent.headers[key] = args.options.headers[key]

\* a caller's Content-Type replacing the one derived from the text type
C19_Witness ==
    /\ Dispatched
    /\ args.options.type = Str("text")
    /\ args.options.contentType = Undefined
    /\ args.options.headers = ("Content-Type" :> "image/png")
    /\ sent.headers["Content-Type"] = "image/png"

\* the URL names a host: http://host..., https://host... or //host...
IsAbsolute(url) ==
    SubSeq(url, SchemeLength(url) + 1, SchemeLength(url) + 2) = "//"

RECURSIVE UpTo(_, _)
\* the text s up to its first character in stops
UpTo(s, stops) ==
    IF s = "" \/ SubSeq(s, 1, 1) \in stops THEN ""
    ELSE SubSeq(s, 1, 1) \o UpTo(SubSeq(s, 2, Len(s)), stops)

\* the host an absolute URL names
HostOf(url) ==
    UpTo(SubSeq(url, SchemeLength(url) + 3, Len(url)), {"/", ":", "?", "#"})

\* relative, or absolute with the page's own host
SameOrigin(url, hostname) == ~IsAbsolute(url) \/ HostOf(url) = hostname

(* C20  A call whose resolved URL is same-origin (relative, or absolute    *)
(* with the page's own host) is dispatched with credentials sent, whatever *)
(* the credentials option says, an explicit false included.                *)
C20_SameOriginSendsCredentials ==
    (Dispatched /\ SameOrigin(sent.url, args.hostname)) =>
        sent.credentials = TRUE

(* C21  The cross-origin flag of a constructed Request is true exactly     *)
(* when the host of the resolved URL differs from the page's host: false   *)
(* for a relative URL and for an absolute URL naming the page's own host,  *)
(* true for an absolute URL naming another host.                           *)
C21_CorsIffOtherHost ==
    Constructed =>
        (request.cors <=> ~SameOrigin(request.url, args.hostname))

(* C22  Every verb entry issues its request with its own method, whatever  *)
(* method the caller wrote in the options, and upload issues with method   *)
(* POST and submission type form, whatever type or method the caller wrote.*)
C22_VerbEntriesFixMethod ==
    /\ entry \in Verbs =>
          sent.method = VerbMethod[entry] /\ request.method = VerbMethod[entry]
    /\ entry = "upload" =>
          /\ sent.method = "POST"
          /\ request.type = "form"

\* get() called with options that name another method, and upload() called
\* with options that name another type
C22_Witness ==
    \/ /\ entry = "get"
       /\ args.given.method = Str("POST")
       /\ sent.method = "GET"
    \/ /\ entry = "upload"
       /\ args.given.type = Str("json")
       /\ args.given.method = Str("GET")
       /\ request.type = "form"

(* C23  Each call uses one transport, chosen when it is dispatched: the    *)
(* Fetch transport iff window.fetch exists and useXHR is not set, the XHR  *)
(* transport otherwise.  The choice never changes afterwards, a call on    *)
(* the Fetch transport never has an XMLHttpRequest, and a call on the XHR  *)
(* transport never has a fetch timer.                                      *)
C23_OneTransportChosenOnce ==
    [][\A c \in Calls :
        /\ (transport[c] = "none" /\ transport'[c] # "none") =>
              (transport'[c] = "fetch" <=> (windowFetch /\ ~req'[c].useXHR))
        /\ transport[c] # "none" => transport'[c] = transport[c]
        /\ transport'[c] = "fetch" => (~xhr'[c] /\ xhrObj'[c] = NoXHR)
        /\ transport'[c] = "xhr" =>
              (fetchTimeoutTimer'[c] = 0 /\ ~abortReachable'[c])]_vars

\* a call forced onto the XHR transport in a runtime that has window.fetch
\* has run to its end
C23_Witness ==
    \E c \in Calls :
        /\ Issued(c)
        /\ windowFetch
        /\ req[c].useXHR
        /\ transport[c] = "xhr"
        /\ net[c] = "done"
        /\ promise[c] # Pending

(* C24  The two transports give the same terminal outcome for the same     *)
(* request and the same behaviour of the environment.  Checked on the two  *)
(* behaviours both transports have in common: when the load handling of a  *)
(* call has run, the body its transport parsed from the response text is   *)
(* the body the other transport parses from it, and the request() promise  *)
(* is settled; when the network operation failed, the call is rejected     *)
(* with the generic failure, which is what the XHR transport reports.      *)
C24_TransportsEquivalent ==
    \A c \in Calls :
        /\ LoadWon(c) =>
              /\ Returned(parseFetchData(req[c], res[c].text))
                     = parseXHRData(req[c], res[c].text)
              /\ promise[c] # Pending
        /\ (net[c] = "failed" /\ promise[c] # Rejected(TimeoutError)) =>
              promise[c] = Rejected(GenericError)

(* C25  Whenever the request() promise of a call is rejected, whatever the *)
(* transport and the cause, the rejection value is a RequestError with an  *)
(* integer status, a string code and a string message.                     *)
C25_RejectionIsRequestError ==
    \A c \in Calls :
        promise[c].s = "rejected" =>
            /\ promise[c].v.t = "RequestError"
            /\ promise[c].v.status.t = "number"
            /\ promise[c].v.code.t = "string"
            /\ promise[c].v.message.t = "string"

(* C26  The error event of the XHR transport rejects the call with status  *)
(* 500, code "1000" and message "Unknown Error".                           *)
C26_GenericErrorValues ==
    \A c \in Calls :
        (transport[c] = "xhr" /\ net[c] = "failed") =>
            /\ promise[c].s = "rejected"
            /\ promise[c].v.t = "RequestError"
            /\ promise[c].v.status = Num(500)
            /\ promise[c].v.code = Str("1000")
            /\ promise[c].v.message = Str("Unknown Error")

(* C27  After any sequence of calls made with one options object, the      *)
(* options object is as the caller wrote it, and the Request of the last   *)
(* call is the one its entry builds from the call's own arguments: the     *)
(* URL, the data and the options as the caller wrote them.                 *)
C27_CallsLeaveNoState ==
    entry # "none" =>
        /\ args.options = args.given
        /\ request = RequestConstructor(args.url, EntryData(entry, args.data),
                                        EntryOptions(entry, args.given),
                                        args.hostname)

Detached(c) ==
    /\ ~xhrObj[c].progress
    /\ ~xhrObj[c].onload
    /\ ~xhrObj[c].onerror
    /\ ~xhrObj[c].onabort
    /\ ~xhrObj[c].ontimeout

(* C29  In the XHR transport the first of load, error, abort and timeout   *)
(* to fire runs the cleanup: the step that ends the network operation or   *)
(* settles the promise is the step that releases this.xhr, and it leaves   *)
(* the progress listener and the four handlers detached.  Once this.xhr is *)
(* released it stays released, so the cleanup body runs once, and no later *)
(* step changes the XMLHttpRequest, the promise or the uncaught exception  *)
(* of the call.                                                            *)
C29_XHRCleanupOnce ==
    [][\A c \in Calls :
        transport[c] = "xhr" =>
            /\ (xhr[c] /\ ~xhr'[c]) => Detached(c)'
            /\ (xhr[c] /\ (promise'[c] # Pending \/ net'[c] # "open")) =>
                  ~xhr'[c]
            /\ ~xhr[c] =>
                  /\ ~xhr'[c]
                  /\ xhrObj'[c] = xhrObj[c]
                  /\ promise'[c] = promise[c]
                  /\ uncaught'[c] = uncaught[c]]_vars

\* a call on the XHR transport was rejected by the error event and released
\* its XMLHttpRequest
C29_Witness ==
    \E c \in Calls :
        /\ transport[c] = "xhr"
        /\ net[c] = "failed"
        /\ promise[c] = Rejected(GenericError)
        /\ ~xhr[c]
        /\ Detached(c)

(* C30  In the XHR transport with dataType json, once the load handler has *)
(* run on a response whose text is empty or is not JSON, no exception has  *)
(* left the handler and the promise of the call is settled.                *)
C30_XHRInvalidJsonSettles ==
    \A c \in Calls :
        (/\ transport[c] = "xhr"
         /\ net[c] = "done"
         /\ req[c].dataType = "json"
         /\ ~JSONParse(res[c].text).ok) =>
            /\ uncaught[c] = NoErr
            /\ promise[c] # Pending

\* the Fetch transport has parsed the body of the response under study
BodyParsed == parseOutput.stage \in {"body", "settled"}

(* C31  In the Fetch transport the parsing of the body always gives a      *)
(* value: with dataType json the decoded value, or an empty object when    *)
(* the body cannot be read or is not JSON; with dataType text the text, or *)
(* the empty string when the body cannot be read; with any other dataType  *)
(* the empty string, the body not being read.  The status classification   *)
(* then runs on that value: the call settles, and under a failure status   *)
(* with the status failure built from that value (a body that decodes to   *)
(* null, which is not a substituted body, is the subject of C11).          *)
C31_FetchParseNeverRejects ==
    BodyParsed =>
        /\ parseInput.dataType = "json" =>
              /\ parseOutput.read
              /\ parseOutput.result =
                    IF parseInput.readFails \/ ~JSONParse(parseInput.text).ok
                    THEN EmptyObject ELSE JSONParse(parseInput.text).v
        /\ parseInput.dataType = "text" =>
              /\ parseOutput.read
              /\ parseOutput.result =
                    IF parseInput.readFails THEN Str("")
                    ELSE Str(parseInput.text)
        /\ parseInput.dataType \notin {"json", "text"} =>
              /\ ~parseOutput.read
              /\ parseOutput.result = Str("")
        /\ parseOutput.stage = "settled" =>
              IF IsFailureStatus(parseInput.status)
                    /\ ~IsNullish(parseOutput.result)
              THEN parseOutput.settlement =
                        Rejected(StatusError(parseInput.status,
                                             parseInput.statusText,
                                             parseOutput.result))
              ELSE parseOutput.settlement.s \in {"resolved", "rejected"}

\* a body that is not JSON, answered with a failure status to a json call,
\* was replaced by {} and the call rejected with the status failure
C31_Witness ==
    /\ parseOutput.stage = "settled"
    /\ parseInput.dataType = "json"
    /\ parseInput.text = TextHtml
    /\ parseInput.status = 404
    /\ parseOutput.result = EmptyObject
    /\ parseOutput.settlement.s = "rejected"
    /\ parseOutput.settlement.v.t = "RequestError"

FilledFields ==
    [statusCode |-> Num(200), errorCode |-> Num(0), errorMessage |-> Null,
     errorStack |-> Null]

\* the default parser was given a body that has a success and a data field
NormalizedConforming ==
    /\ parseOutput.stage = "normalized"
    /\ HasOwn(parseInput.result, "success")
    /\ HasOwn(parseInput.result, "data")

(* C34  The default parser, given a body that has both a success and a     *)
(* data field, returns the body with its missing fields filled (statusCode *)
(* 200, errorCode 0, errorMessage null, errorStack null) and every field   *)
(* that is present, success and data included, unchanged.                  *)
C34_DefaultParserFillsMissing ==
    NormalizedConforming =>
        /\ parseOutput.responseData.ok
        /\ LET given == parseInput.result.f
               filled == parseOutput.responseData.v.f
           IN  /\ DOMAIN filled = DOMAIN given \cup DOMAIN FilledFields
               /\ \A k \in DOMAIN given : filled[k] = given[k]
               /\ \A k \in DOMAIN FilledFields \ DOMAIN given :
                      filled[k] = FilledFields[k]

(* C35  A response normalized by the default parser has success = true, or *)
(* success = false and an errorMessage that is a string, never both and    *)
(* never neither.                                                          *)
C35_SuccessOrErrorMessage ==
    (parseOutput.stage = "normalized" /\ parseOutput.responseData.ok) =>
        LET responseData == parseOutput.responseData.v
        IN  \/ GetProp(responseData, "success") = Bool(TRUE)
            \/ /\ GetProp(responseData, "success") = Bool(FALSE)
               /\ GetProp(responseData, "errorMessage").t = "string"

(* C36  In the Fetch transport the step in which the response head arrives *)
(* clears the timer of the call, before the body is read; from then on the *)
(* timer stays cleared and the call is not rejected with the timeout       *)
(* failure, whenever the timeout period ends.                              *)
C36_TimerClearedAtHead ==
    [][\A c \in Calls :
        transport[c] = "fetch" =>
            /\ (net[c] = "open" /\ net'[c] = "head") =>
                  (fetchTimeoutTimer'[c] = 0 /\ promise'[c] = promise[c])
            /\ net[c] \in {"head", "done"} =>
                  /\ fetchTimeoutTimer'[c] = 0
                  /\ promise[c] # Rejected(TimeoutError) =>
                        promise'[c] # Rejected(TimeoutError)]_vars

\* the timeout period of a call ended while its body was being read, and
\* the call resolved all the same
C36_Witness ==
    \E c \in Calls :
        /\ transport[c] = "fetch"
        /\ req[c].timeout > 0
        /\ clock[c] = "elapsedPending"
        /\ net[c] = "done"
        /\ promise[c].s = "resolved"

(* C37  For a json call without a parser of its own, the step that         *)
(* normalizes the response applies the global parser installed at that     *)
(* step, whatever parser was installed when the call was issued.           *)
C37_GlobalParserReadLate ==
    [][\A c \in Calls :
          LET body == ParsedBody(c, res'[c].text)
          IN  (/\ Normalizes(c)
               /\ req[c].dataType = "json"
               /\ req[c].parse = NoParser
               /\ ~IsFailureStatus(res'[c].status)
               /\ body.ok) =>
                  promise'[c] =
                      AsSettlement(ParseResponse(
                          [req[c] EXCEPT !.parse = responseParseFunction],
                          NoParser, body.v))]_vars

\* a call issued before any global parser was installed was normalized by
\* the parser installed while it was in flight
C37_Witness ==
    \E c \in Calls :
        /\ Issued(c)
        /\ req[c].dataType = "json"
        /\ req[c].parse = NoParser
        /\ parserAtIssue[c] = NoParser
        /\ responseParseFunction = "docParser"
        /\ net[c] = "done"
        /\ res[c].status = 200
        /\ res[c].text = TextDocFail
        /\ promise[c].s = "rejected"
        /\ promise[c].v.message = Str("Custom Fail")

(* C38  The timeout a Request holds is never negative, and a call whose    *)
(* timeout is 0 has no fetch timer, no timeout and no timeout handler on   *)
(* its XMLHttpRequest, and is never rejected with the timeout failure.     *)
C38_NoTimeoutWhenZero ==
    \A c \in Calls :
        Issued(c) =>
            /\ req[c].timeout >= 0
            /\ req[c].timeout = 0 =>
                  /\ fetchTimeoutTimer[c] = 0
                  /\ xhrObj[c].timeout = 0
                  /\ ~xhrObj[c].ontimeout
                  /\ clock[c] = "off"
                  /\ promise[c] # Rejected(TimeoutError)

\* a call without timeout is in flight on the XHR transport with its load,
\* error and abort handlers attached and no timeout handler
C38_Witness ==
    \E c \in Calls :
        /\ Issued(c)
        /\ req[c].timeout = 0
        /\ transport[c] = "xhr"
        /\ net[c] = "open"
        /\ xhrObj[c].onload
        /\ ~xhrObj[c].ontimeout
        /\ promise[c] = Pending

\* the environment has delivered a transport event for call c: a response,
\* a network error, an abort, or the timeout
Delivered(c) ==
    \/ net[c] \in {"head", "done", "failed", "aborted", "timedout"}
    \/ clock[c] = "elapsedPending"

(* C33  Once the environment has delivered a transport event for a call,   *)
(* the call eventually has an outcome for its caller and has fired its     *)
(* complete notification.                                                  *)
C33_EveryCallEnds ==
    \A c \in Calls :
        Delivered(c) ~>
            (outcome[c] # Pending /\ CountOf(fired[c], "complete") >= 1)

====
